---- MODULE Spec2Model ----
(***************************************************************************)
(* A model of the BlanketClusterer hierarchy driver                        *)
(* (src/algorithms/generic_clustering.py), of its naming, colorizing and   *)
(* emitting helpers, and of the constructor validation                     *)
(* (src/blanket_clusterer.py, src/main.py).                                *)
(*                                                                         *)
(* Strings that the code compares (Codes, Range Keys) are sequences of     *)
(* character codes, so that Python's lexicographic comparison, split("-")  *)
(* and upper() are computed and not assumed.  Vectors are pairs of         *)
(* naturals on a grid on which the float32 cast and the textual encoding   *)
(* np.array2string are both lossy.                                         *)
(***************************************************************************)
EXTENDS Integers, Sequences, FiniteSets, TLC

\* ------------------------------------------------------------------ bounds

\* The largest n_clusters the partitioner is called with.
MaxClusters == 2

\* Largest number of entries of the embeddings table (self.vectors).
MaxVectors == 3

\* Largest items_in_cluster the runs are started with.
MaxItems == 2

\* ------------------------------------------------------- program constants

\* The run is unrolled to six nested levels, 0 to 5.
LastLevel == 5

\* The number of nested levels up to which run tries longest_subsequence
\* before name_cluster (levels 0, 1 and 2).
GroupNamedLevels == 3

\* count_sequences: share of the cluster the selected keys must hold, in %.
SharePercent == 60

\* count_sequences: the most Range Keys that are selected.
MaxNameKeys == 3

\* extract_nums_count: the hue circle.
FullCircle == 360

\* validate_constructor: items_in_cluster must be greater than this.
MinItemsExclusive == 5

\* validate_constructor: the largest max_depth.
MaxDepthAllowed == 6

\* main: len(sys.argv) when the optional group-names argument is given.
ArgcWithGroups == 9

\* main: the index of the last positional argument, sys.argv[7].
LastPositional == 7

\* ----------------------------------------------------------------- helpers

\* Body(value), the value being computed once and then handed on.
With(value, Body(_)) == CHOOSE r \in { Body(x) : x \in {value} } : TRUE

\* ----------------------------------------------------------------- strings

\* The character "-" at which a Range Key is split.
Dash == 45

\* str.upper() on one character code.
UpperChar(c) == IF c >= 97 /\ c <= 122 THEN c - 32 ELSE c

\* str.upper().
Upper(s) == [i \in 1..Len(s) |-> UpperChar(s[i])]

RECURSIVE LexLess(_, _)
\* Python's s < t on strings: by code point, a proper prefix is smaller.
LexLess(s, t) ==
    IF t = <<>> THEN FALSE
    ELSE IF s = <<>> THEN TRUE
    ELSE IF s[1] < t[1] THEN TRUE
    ELSE IF s[1] > t[1] THEN FALSE
    ELSE LexLess(Tail(s), Tail(t))

\* Python's s <= t on strings.
LexLeq(s, t) == s = t \/ LexLess(s, t)

RECURSIVE SplitFrom(_, _, _)
\* key.split("-"): the pieces of s after position i, cur being the piece
\* collected so far.
SplitFrom(s, i, cur) ==
    IF i > Len(s) THEN <<cur>>
    ELSE IF s[i] = Dash THEN <<cur>> \o SplitFrom(s, i + 1, <<>>)
    ELSE SplitFrom(s, i + 1, Append(cur, s[i]))

\* key.split("-").
Split(s) == SplitFrom(s, 1, <<>>)

\* left_border <= code <= right_border on the two first pieces of the key.
LexBrackets(key, code) ==
    LET borders == Split(key)
    IN  LexLeq(borders[1], code) /\ LexLeq(code, borders[2])

RECURSIVE NumValue(_)
\* The number a string of digits denotes.
NumValue(s) ==
    IF s = <<>> THEN 0
    ELSE 10 * NumValue(SubSeq(s, 1, Len(s) - 1)) + (s[Len(s)] - 48)

IsDigits(s) == s # <<>> /\ \A i \in 1..Len(s) : s[i] >= 48 /\ s[i] <= 57

\* The comparison a numeric reading of the borders would make.
NumBrackets(key, code) ==
    LET borders == Split(key)
    IN  IF IsDigits(borders[1]) /\ IsDigits(borders[2]) /\ IsDigits(code)
        THEN NumValue(borders[1]) <= NumValue(code)
             /\ NumValue(code) <= NumValue(borders[2])
        ELSE LexLeq(borders[1], code) /\ LexLeq(code, borders[2])

\* The comparison the code makes between a Range Key and a Code.
Brackets(key, code) == LexBrackets(key, code)

\* ------------------------------------------------------------------ inputs

\* The Codes the embeddings files are drawn from, with their vectors:
\*   "J50" (2,4)   "K01" (4,2)   "10" (1,0)   "j60" (6,2)
\*   "Z9"  (0,0)   "K02" (4,2)   "J70" (3,0)
\* (1,0) and (3,0) are changed by the float32 cast, (0,0) has a zero sum,
\* "K02" repeats the vector of "K01" and (3,0) is a multiple of (1,0).
Universe ==
    << [code |-> <<74, 53, 48>>,  vec |-> <<2, 4>>],
       [code |-> <<75, 48, 49>>,  vec |-> <<4, 2>>],
       [code |-> <<49, 48>>,      vec |-> <<1, 0>>],
       [code |-> <<106, 54, 48>>, vec |-> <<6, 2>>],
       [code |-> <<90, 57>>,      vec |-> <<0, 0>>],
       [code |-> <<75, 48, 50>>,  vec |-> <<4, 2>>],
       [code |-> <<74, 55, 48>>,  vec |-> <<3, 0>>] >>

\* The embeddings files: every run of at most MaxVectors consecutive entries
\* of Universe, in that order.
EmbeddingFiles ==
    UNION { { SubSeq(Universe, o, o + n - 1) : o \in 1..(Len(Universe) - n + 1) } :
            n \in 1..MaxVectors }

\* The rows of the group-names file, in file order:
\*   "J00-J99"  "J40-K99"  "L00-L99"  "1-5"
\* The second overlaps the first, the third brackets no Code of Universe and
\* the fourth has an empty description.
GroupRows ==
    << [key |-> <<74, 48, 48, 45, 74, 57, 57>>, value |-> <<"lung", "disease">>],
       [key |-> <<74, 52, 48, 45, 75, 57, 57>>, value |-> <<"skin">>],
       [key |-> <<76, 48, 48, 45, 76, 57, 57>>, value |-> <<"bone">>],
       [key |-> <<49, 45, 53>>,                 value |-> <<"">>] >>

\* The rows of the names file that describe Codes ("Z9" has no row; the row
\* of "j60" is keyed "j60" in the file).
CodeRows ==
    << [key |-> <<74, 53, 48>>,  value |-> <<"chronic", "bronchitis">>],
       [key |-> <<75, 48, 49>>,  value |-> <<"eczema">>],
       [key |-> <<49, 48>>,      value |-> <<"ten">>],
       [key |-> <<106, 54, 48>>, value |-> <<"asthma">>],
       [key |-> <<75, 48, 50>>,  value |-> <<"rash">>],
       [key |-> <<74, 55, 48>>,  value |-> <<"flu">>] >>

\* The names files: with the Codes only, or with the Range Keys as well.
NamesFiles == {"codes", "codes+groups"}

NamesRows(names) ==
    IF names = "codes+groups" THEN CodeRows \o GroupRows ELSE CodeRows

\* The group-names argument: None, or the file of GroupRows.
GroupFiles == {"None", "groups.csv"}

\* ------------------------------------------------------------------ loading

\* np.array2string of a vector: the text keeps less than the value (two
\* grid points share one text).  hash() of the text is taken as injective.
Enc(v) == <<v[1] \div 2, v[2] \div 2>>

\* np.array(value, dtype=np.float32): rounds to the float32 grid.
F32(v) == <<2 * ((v[1] + 1) \div 2), 2 * ((v[2] + 1) \div 2)>>

\* __init__: reversed_vectors, a later entry replacing an earlier one with the
\* same text.
ReversedInit(vs) ==
    LET encs == { Enc(vs[i].vec) : i \in 1..Len(vs) }
        last(e) == CHOOSE i \in 1..Len(vs) :
                      /\ Enc(vs[i].vec) = e
                      /\ \A j \in 1..Len(vs) : Enc(vs[j].vec) = e => j <= i
    IN  [e \in encs |-> vs[last(e)].code]

\* __init__: self.arrays, and extract_vectors_as_array: self.X.
Arrays(vs) == [i \in 1..Len(vs) |-> vs[i].vec]

RECURSIVE ExtractNamesRows(_, _)
\* The loop of extract_names over the first n rows: each row is stored under
\* its stripped, upper-cased key, a later row replacing an earlier one.
ExtractNamesRows(rows, n) ==
    IF n = 0 THEN <<>>
    ELSE (Upper(rows[n].key) :> rows[n].value) @@ ExtractNamesRows(rows, n - 1)

\* extract_names: self.Y, keyed by the stripped, upper-cased key.
ExtractNames(names) ==
    ExtractNamesRows(NamesRows(names), Len(NamesRows(names)))

\* extract_nums_count: the Range Keys in file order (each with count 0).
ExtractNumsCount(gn) ==
    IF gn = "None" THEN <<>> ELSE [i \in 1..Len(GroupRows) |-> GroupRows[i].key]

\* extract_group_names: self.Z, from upper-cased Range Key to description;
\* empty without a group-names file.
ExtractGroupNames(gn) ==
    IF gn = "None" THEN <<>>
    ELSE [k \in { Upper(GroupRows[i].key) : i \in 1..Len(GroupRows) } |->
            GroupRows[CHOOSE i \in 1..Len(GroupRows) :
                         /\ Upper(GroupRows[i].key) = k
                         /\ \A j \in 1..Len(GroupRows) :
                               Upper(GroupRows[j].key) = k => j <= i].value]

\* extract_nums_count: color_constant = 360 / len(nums_count).
ColorConstant(keys) == FullCircle \div Len(keys)

\* extract_coverages: coverages[key] = color_constant * i, i from 1.
ExtractCoverages(keys) == [i \in 1..Len(keys) |-> ColorConstant(keys) * i]

\* ---------------------------------------------------------- Embedding Store

\* The lookup state: reversed_vectors and total_missing_items.
StoreInit(vs) == [rv |-> ReversedInit(vs), missing |-> 0]

VSum(v) == v[1] + v[2]

\* Whether row i of similarity is NaN: a zero sum divides 0 by 0.
IsNaN(arrays, q, i) == VSum(arrays[i]) = 0 \/ VSum(q) = 0

\* Numerator and denominator of the squared distance of the two vectors, each
\* divided by the sum of its components.
DistNum(t, q) ==
    (t[1] * VSum(q) - q[1] * VSum(t)) * (t[1] * VSum(q) - q[1] * VSum(t))
    + (t[2] * VSum(q) - q[2] * VSum(t)) * (t[2] * VSum(q) - q[2] * VSum(t))

DistDen(t, q) == (VSum(t) * VSum(q)) * (VSum(t) * VSum(q))

\* similarity[i] < similarity[j], for two rows that are not NaN.
Closer(arrays, q, i, j) ==
    DistNum(arrays[i], q) * DistDen(arrays[j], q)
        < DistNum(arrays[j], q) * DistDen(arrays[i], q)

\* similarity.argmin() after similarity[isnan] = similarity[0] + 1 (1-based).
\* A NaN first row stays NaN (NaN + 1) and argmin returns the first NaN; else
\* the NaN rows hold similarity[0] + 1 and never are the minimum.
ArgMin(arrays, q) ==
    IF IsNaN(arrays, q, 1) THEN 1
    ELSE LET real == { i \in 1..Len(arrays) : ~IsNaN(arrays, q, i) }
         IN  CHOOSE i \in real :
                \A j \in real : /\ ~Closer(arrays, q, j, i)
                                /\ (j < i => Closer(arrays, q, i, j))

\* get_most_similar_key with the entry of the nearest vector never stored.
GetMostSimilarKeyNoStore(st, arrays, array) ==
    LET hashed_array == Enc(array)
    IN  IF hashed_array \in DOMAIN st.rv
        THEN [st |-> st, key |-> st.rv[hashed_array]]
        ELSE LET result == arrays[ArgMin(arrays, array)]
             IN  [st  |-> [rv      |-> st.rv,
                           missing |-> st.missing + 1],
                  key |-> st.rv[Enc(result)]]

\* get_most_similar_key storing the entry of the first vector of the table
\* instead of the nearest one.
GetMostSimilarKeyStoreFirst(st, arrays, array) ==
    LET hashed_array == Enc(array)
    IN  IF hashed_array \in DOMAIN st.rv
        THEN [st |-> st, key |-> st.rv[hashed_array]]
        ELSE LET result == arrays[ArgMin(arrays, array)]
             IN  [st  |-> [rv      |-> (hashed_array :> st.rv[Enc(arrays[1])]) @@ st.rv,
                           missing |-> st.missing + 1],
                  key |-> st.rv[Enc(result)]]

\* get_most_similar_key(array): the new lookup state and the returned Code.
GetMostSimilarKey(st, arrays, array) ==
    LET hashed_array == Enc(array)
    IN  IF hashed_array \in DOMAIN st.rv
        THEN [st |-> st, key |-> st.rv[hashed_array]]
        ELSE LET result == arrays[ArgMin(arrays, array)]
                 hashed_result == Enc(result)
                 stored == (hashed_array :> st.rv[hashed_result]) @@ st.rv
             IN  [st  |-> [rv      |-> stored,
                           missing |-> st.missing + 1],
                  key |-> stored[hashed_array]]

RECURSIVE AllKeys(_, _, _)
\* The loop "for value in cluster: key = get_most_similar_key(float32(value));
\* all_keys.append(str(key))": the new lookup state and all_keys.
AllKeys(st, arrays, cluster) ==
    IF cluster = <<>> THEN [st |-> st, keys |-> <<>>]
    ELSE With(GetMostSimilarKey(st, arrays, F32(Head(cluster))), LAMBDA one :
         With(AllKeys(one.st, arrays, Tail(cluster)), LAMBDA rest :
            [st |-> rest.st, keys |-> <<one.key>> \o rest.keys]))

\* ------------------------------------------------------------ Range Keys

\* The position in keys of the Range Key one Code is counted for by the loop
\* "for key in nums_count: if left <= code <= right: count; break"; 0 if the
\* loop ends without a break.
FirstBracket(keys, code) ==
    LET hits == { k \in 1..Len(keys) : Brackets(keys[k], code) }
    IN  IF hits = {} THEN 0 ELSE CHOOSE k \in hits : \A j \in hits : k <= j

\* The key one Code is counted for.
CountedKey(keys, code) == FirstBracket(keys, code)

RECURSIVE CountKeys(_, _)
\* The counting loops of count_sequences and colorize_cluster: the copy of
\* nums_count after every Code of arr was counted.
CountKeys(keys, arr) ==
    IF arr = <<>> THEN [k \in 1..Len(keys) |-> 0]
    ELSE With(CountKeys(keys, SubSeq(arr, 1, Len(arr) - 1)), LAMBDA before :
         With(CountedKey(keys, arr[Len(arr)]), LAMBDA hit :
            [k \in 1..Len(keys) |-> IF k = hit THEN before[k] + 1 ELSE before[k]]))

RECURSIVE SortedDescLastFirst(_, _)
\* The same order with equal counts in reverse table order, as reversing an
\* ascending sort gives.
SortedDescLastFirst(counts, todo) ==
    IF todo = {} THEN <<>>
    ELSE LET first == CHOOSE k \in todo :
                         \A j \in todo : /\ counts[j] <= counts[k]
                                         /\ (counts[j] = counts[k] => k >= j)
         IN  <<first>> \o SortedDescLastFirst(counts, todo \ {first})

RECURSIVE SortedDesc(_, _)
\* sorted(counts, key=counts.get, reverse=True) over the positions in todo:
\* descending by count, equal counts in table order (the sort is stable).
SortedDesc(counts, todo) ==
    IF todo = {} THEN <<>>
    ELSE LET first == CHOOSE k \in todo :
                         \A j \in todo : /\ counts[j] <= counts[k]
                                         /\ (counts[j] = counts[k] => k <= j)
         IN  <<first>> \o SortedDesc(counts, todo \ {first})

RECURSIVE SelectKeysPastShare(_, _, _, _, _)
\* The loop of lines 331-334 without the test of num_keys: keys are taken
\* until 3 are.
SelectKeysPastShare(order, counts, size, i, acc) ==
    IF i > Len(order) THEN acc.name_keys
    ELSE IF Len(acc.name_keys) < MaxNameKeys
         THEN SelectKeysPastShare(order, counts, size, i + 1,
                         [name_keys |-> Append(acc.name_keys, order[i]),
                          num_keys  |-> acc.num_keys + counts[order[i]]])
         ELSE SelectKeysPastShare(order, counts, size, i + 1, acc)

RECURSIVE SelectKeys(_, _, _, _, _)
\* The loop of lines 331-334 over dict_count from position i on: an item is
\* appended while num_keys < 60 * len(arr) / 100 and fewer than 3 are taken.
SelectKeys(order, counts, size, i, acc) ==
    IF i > Len(order) THEN acc.name_keys
    ELSE IF 100 * acc.num_keys < SharePercent * size
            /\ Len(acc.name_keys) < MaxNameKeys
         THEN SelectKeys(order, counts, size, i + 1,
                         [name_keys |-> Append(acc.name_keys, order[i]),
                          num_keys  |-> acc.num_keys + counts[order[i]]])
         ELSE SelectKeys(order, counts, size, i + 1, acc)

RECURSIVE StripWords(_)
\* The words of " ".join(words).strip(): empty words at either end vanish.
StripWords(ws) ==
    IF ws = <<>> THEN <<>>
    ELSE IF Head(ws) = "" THEN StripWords(Tail(ws))
    ELSE IF ws[Len(ws)] = "" THEN StripWords(SubSeq(ws, 1, Len(ws) - 1))
    ELSE ws

RECURSIVE JoinNames(_, _, _, _)
\* Lines 335-340: the words of Y[key] of every selected key, a "/" after each
\* key but the last.
JoinNames(Y, keys, name_keys, i) ==
    IF i > Len(name_keys) THEN <<>>
    ELSE Y[keys[name_keys[i]]]
         \o (IF i # Len(name_keys) THEN <<"/">> ELSE <<>>)
         \o JoinNames(Y, keys, name_keys, i + 1)

\* count_sequences(arr): "" without group names.  raised: Y[key] raises
\* KeyError for a selected Range Key that the names file does not hold.
CountSequences(gn, Y, keys, arr) ==
    IF gn = "None"
    THEN [raised |-> FALSE, nums_count |-> <<>>, name_keys |-> <<>>, name |-> <<>>]
    ELSE
    With(CountKeys(keys, arr), LAMBDA nums_count :
    With(SortedDesc(nums_count, 1..Len(keys)), LAMBDA dict_count :
    With(SelectKeys(dict_count, nums_count, Len(arr), 1,
                    [name_keys |-> <<>>, num_keys |-> 0]), LAMBDA name_keys :
    With(\A i \in 1..Len(name_keys) : keys[name_keys[i]] \in DOMAIN Y, LAMBDA found :
        [raised     |-> ~found,
         nums_count |-> nums_count,
         name_keys  |-> name_keys,
         name       |-> IF found THEN StripWords(JoinNames(Y, keys, name_keys, 1))
                        ELSE <<>>]))))

\* The value of a label that was not computed.
NoName == [src |-> "none", words |-> <<>>]

\* longest_subsequence(curr_cluster): "" without group names, else
\* count_sequences of the Codes of the members.
LongestSubsequence(st, gn, Y, keys, arrays, cluster) ==
    IF gn = "None"
    THEN [st |-> st, raised |-> FALSE, name |-> <<>>]
    ELSE With(AllKeys(st, arrays, cluster), LAMBDA all_keys :
         With(CountSequences(gn, Y, keys, all_keys.keys), LAMBDA counted :
            [st |-> all_keys.st, raised |-> counted.raised, name |-> counted.name]))

RECURSIVE Descriptions(_, _)
\* name_cluster: all_descriptions, the description of every Code that is a
\* key of Y as it stands (no upper-casing here).
Descriptions(Y, codes) ==
    IF codes = <<>> THEN <<>>
    ELSE (IF Head(codes) \in DOMAIN Y THEN Y[Head(codes)] ELSE <<>>)
         \o Descriptions(Y, Tail(codes))

\* name_cluster(currCluster).  The phrase RAKE ranks first is the library's
\* choice; the label carries the text RAKE was given.
NameCluster(st, Y, arrays, cluster) ==
    With(AllKeys(st, arrays, cluster), LAMBDA all_keys :
        [st   |-> all_keys.st,
         name |-> [src |-> "rake", words |-> Descriptions(Y, all_keys.keys)]])

\* colorize_cluster(curr_cluster): the lookup state and the coverage.
ColorizeCluster(st, gn, keys, arrays, cluster) ==
    IF gn = "None"
    THEN [st |-> st, coverage |-> 0, all_keys |-> <<>>, counts |-> <<>>]
    ELSE With(AllKeys(st, arrays, cluster), LAMBDA all_keys :
         With(CountKeys(keys, all_keys.keys), LAMBDA counts :
         With(SortedDesc(counts, 1..Len(keys)), LAMBDA dict_count :
            [st       |-> all_keys.st,
             coverage |-> ExtractCoverages(keys)[dict_count[1]],
             all_keys |-> all_keys.keys,
             counts   |-> counts])))

RECURSIVE WalkCoverage(_, _, _, _)
\* The loop of colorize_code from key i on, coverage being the running sum.
WalkCoverage(keys, code, i, coverage) ==
    IF i > Len(keys) THEN 0
    ELSE IF Brackets(keys[i], code) THEN coverage
    ELSE WalkCoverage(keys, code, i + 1, coverage + ColorConstant(keys))

\* colorize_code(code): the lookup state and the coverage.
ColorizeCode(st, gn, keys, arrays, entry) ==
    IF gn = "None" THEN [st |-> st, key |-> <<>>, coverage |-> 0]
    ELSE With(GetMostSimilarKey(st, arrays, F32(entry)), LAMBDA got :
            [st |-> got.st, key |-> got.key,
             coverage |-> WalkCoverage(keys, got.key, 1, ColorConstant(keys))])

\* ----------------------------------------------------------- Partitioner

\* The label sequences a backend may return for n vectors, up to a renaming
\* of the labels (labels are opaque; only which vectors share one matters):
\* a new label is the least unused one.
Labellings(n) ==
    { l \in [1..n -> 0..(n - 1)] :
        \A i \in 1..n : \A x \in 0..(l[i] - 1) : \E j \in 1..(i - 1) : l[j] = x }

RECURSIVE Members(_, _, _)
\* The list this_clusters[lab] after the loop of lines 36-42: the vectors
\* labelled lab, in input order.
Members(this_cluster, labels, lab) ==
    IF this_cluster = <<>> THEN <<>>
    ELSE (IF Head(labels) = lab THEN <<Head(this_cluster)>> ELSE <<>>)
         \o Members(Tail(this_cluster), Tail(labels), lab)

RECURSIVE LabelOrder(_, _)
\* The keys of this_clusters in insertion order: by first occurrence.
LabelOrder(labels, seen) ==
    IF labels = <<>> THEN <<>>
    ELSE IF Head(labels) \in seen THEN LabelOrder(Tail(labels), seen)
    ELSE <<Head(labels)>> \o LabelOrder(Tail(labels), seen \cup {Head(labels)})

\* The grouping loop with "this_clusters[item] = []" for a new label: the
\* first vector of every group is lost.
GroupByLabelsDropFirst(this_cluster, labels) ==
    LET order == LabelOrder(labels, {})
    IN  [g \in 1..Len(order) |-> Tail(Members(this_cluster, labels, order[g]))]

\* Lines 35-43 of clusterize_cluster: the groups, in the iteration order of
\* the returned dict.
GroupByLabels(this_cluster, labels) ==
    LET order == LabelOrder(labels, {})
    IN  [g \in 1..Len(order) |-> Members(this_cluster, labels, order[g])]

\* Line 27 of clusterize_cluster: the input is returned as it is.
PassThrough(this_cluster, items) == Len(this_cluster) <= items

\* ------------------------------------------------------------ Tree Emitter

\* The coverage of a token without a "coverage" field.
NoCoverage == 0 - 1

Tok(t, id, label, cov) == [t |-> t, id |-> id, label |-> label, cov |-> cov]

\* The write of a separator or bracket.
Sym(t) == Tok(t, <<>>, NoName, NoCoverage)

\* print_cluster_end writing the coverage whether group names are given or not.
PrintClusterEndAlways(gn, coverage) ==
    << Sym("]"), Tok("}", <<>>, NoName, coverage), Sym(",") >>

\* print_cluster_end(coverage, out): "]", then "}," or the coverage and "},".
PrintClusterEnd(gn, coverage) ==
    << Sym("]"),
       Tok("}", <<>>, NoName, IF gn = "None" THEN NoCoverage ELSE coverage),
       Sym(",") >>

RECURSIVE PrintEntriesSkipMissing(_, _, _, _, _, _, _)
\* The loop of print_cluster with "continue" for a key that self.Y does not
\* hold: the member is neither written nor recorded.
PrintEntriesSkipMissing(st, gn, Y, keys, arrays, this_cluster, i) ==
    IF i > Len(this_cluster) THEN [st |-> st, out |-> <<>>, missing |-> <<>>]
    ELSE
      LET entry == this_cluster[i]
          last  == this_cluster[Len(this_cluster)]
          comma == IF entry # last THEN <<Sym(",")>> ELSE <<>>
      IN
      With(GetMostSimilarKey(st, arrays, F32(entry)), LAMBDA got :
      With(Upper(got.key), LAMBDA key :
        IF key \in DOMAIN Y
        THEN With(ColorizeCode(got.st, gn, keys, arrays, entry), LAMBDA col :
             With(PrintEntriesSkipMissing(col.st, gn, Y, keys, arrays, this_cluster, i + 1),
                  LAMBDA rest :
                [st      |-> rest.st,
                 out     |-> << Tok("leaf", key, [src |-> "desc", words |-> Y[key]],
                                    IF gn = "None" THEN NoCoverage ELSE col.coverage) >>
                             \o comma \o rest.out,
                 missing |-> rest.missing]))
        ELSE PrintEntriesSkipMissing(got.st, gn, Y, keys, arrays, this_cluster, i + 1)))

RECURSIVE PrintEntries(_, _, _, _, _, _, _)
\* The loop of print_cluster from entry i on: the lookup state, the tokens
\* written and the keys appended to missing_data.
PrintEntries(st, gn, Y, keys, arrays, this_cluster, i) ==
    IF i > Len(this_cluster) THEN [st |-> st, out |-> <<>>, missing |-> <<>>]
    ELSE
      LET entry == this_cluster[i]
          last  == this_cluster[Len(this_cluster)]
          comma == IF entry # last THEN <<Sym(",")>> ELSE <<>>
      IN
      With(GetMostSimilarKey(st, arrays, F32(entry)), LAMBDA got :
      With(Upper(got.key), LAMBDA key :
        IF key \in DOMAIN Y
        THEN With(ColorizeCode(got.st, gn, keys, arrays, entry), LAMBDA col :
             With(PrintEntries(col.st, gn, Y, keys, arrays, this_cluster, i + 1),
                  LAMBDA rest :
                [st      |-> rest.st,
                 out     |-> << Tok("leaf", key, [src |-> "desc", words |-> Y[key]],
                                    IF gn = "None" THEN NoCoverage ELSE col.coverage) >>
                             \o comma \o rest.out,
                 missing |-> rest.missing]))
        ELSE With(PrintEntries(got.st, gn, Y, keys, arrays, this_cluster, i + 1),
                  LAMBDA rest :
                [st      |-> rest.st,
                 out     |-> << Tok("leaf", key,
                                    [src |-> "missing", words |-> <<"NAME NOT FOUND">>],
                                    NoCoverage) >>
                             \o comma \o rest.out,
                 missing |-> <<key>> \o rest.missing])))

\* print_cluster(this_cluster, cluster_names, code_id, missing_data, out).
\* cluster_names is written and never read; it is left out.
PrintCluster(st, gn, Y, keys, arrays, this_cluster) ==
    PrintEntries(st, gn, Y, keys, arrays, this_cluster, 1)

\* -------------------------------------------------------------------- state

VARIABLES
    vectors,           \* self.vectors: the embeddings table, in file order
    names,             \* the names file self.Y is read from
    group_names,       \* self.group_names: "None" or the group-names file
    items_in_cluster,  \* self.items_in_cluster
    max_depth,         \* self.max_depth
    store,             \* reversed_vectors and total_missing_items
    pc,                \* where run stands: "start", "loop", "done", "raised"
    error,             \* the exception that ended the run, "" if none
    stack,             \* one frame per open nesting level of run
    out,               \* the tokens written to the output file, in order
    missing_data,      \* run's missing_data list
    total_clusters,    \* run's total_clusters
    visited,           \* the children run has dealt with, in order
    last_call,         \* the last call made on the loaded tables, its result
    args,              \* the arguments of the command line / the constructor
    opened,            \* the files opened so far, in order
    trace              \* what run did for its nodes so far, in order

vars == << vectors, names, group_names, items_in_cluster, max_depth, store,
           pc, error, stack, out, missing_data, total_clusters, visited,
           last_call, args, opened, trace >>

\* What run leaves alone: the calls made from outside and the constructor.
outside == << last_call, args, opened >>

config == << vectors, names, group_names, items_in_cluster, max_depth >>

\* extract_names applied to each names file there is.
DescriptionTables == [f \in NamesFiles |-> ExtractNames(f)]

\* The tables clusterize() loads before run.
Y == DescriptionTables[names]

nums_count == ExtractNumsCount(group_names)

Z == ExtractGroupNames(group_names)

X == Arrays(vectors)

\* ---------------------------------------------------------- Hierarchy Driver

\* The level (0 to 5) of the children the innermost open loop iterates.
Level == Len(stack) - 1

Top == stack[Len(stack)]

\* The child the innermost loop is at.
Entry == Top.cluss[Top.iter + 1]

\* The dotted-path id of that child: str(iter0) + "." + ... + str(iterd).
NodeId == [k \in 1..Len(stack) |-> stack[k].iter]

\* The tests of lines 437, 449, 461, 472 and 485 with the depth test left out.
ShouldRecurseAnyDepth(size, d) == d < LastLevel /\ size > items_in_cluster

\* The tests with >= for >.
ShouldRecurseAtSize(size, d) ==
    d < LastLevel /\ size >= items_in_cluster /\ max_depth > d + 1

\* Whether run partitions a child of the given size at level d: the tests
\* "len(child) > self.items_in_cluster and self.max_depth > d + 1"; the
\* children of level 5 are printed without a test.
ShouldRecurse(size, d) ==
    d < LastLevel /\ size > items_in_cluster /\ max_depth > d + 1

\* The naming of the child at level d: longest_subsequence and, for an empty
\* result, name_cluster at levels 0 to 2; name_cluster alone at levels 3 to 5.
NameNode(st, d, cluster) ==
    IF d < GroupNamedLevels
    THEN With(LongestSubsequence(st, group_names, Y, nums_count, X, cluster),
              LAMBDA ls :
            IF ls.raised
            THEN [st |-> ls.st, raised |-> TRUE, name |-> NoName]
            ELSE IF ls.name = <<>>
            THEN With(NameCluster(ls.st, Y, X, cluster), LAMBDA nc :
                    [st |-> nc.st, raised |-> FALSE, name |-> nc.name])
            ELSE [st |-> ls.st, raised |-> FALSE,
                  name |-> [src |-> "group", words |-> ls.name]])
    ELSE With(NameCluster(st, Y, X, cluster), LAMBDA nc :
            [st |-> nc.st, raised |-> FALSE, name |-> nc.name])

\* The number of leaf entries among the tokens.
LeafCount(tokens) == Cardinality({ i \in 1..Len(tokens) : tokens[i].t = "leaf" })

\* The record of one child run has dealt with: whether it was partitioned or
\* printed, its level, id and members, and the leaf entries written for it.
Visit(kind, d, id, cluster, leaves) ==
    [kind |-> kind, level |-> d, id |-> id, size |-> Len(cluster),
     members |-> cluster, leaves |-> leaves]

\* The three writes that open a node: id, label and the "groups" bracket.
NodeOpen(id, label) == << Tok("node", id, label, NoCoverage) >>

\* One thing run does for the node with the given id: "name" (the Namer is
\* called), "open" (id, label and the "groups" bracket are written),
\* "leaves" (print_cluster writes the members), "colorize" (colorize_cluster
\* is called), "close" (print_cluster_end writes the bracket and coverage).
Ev(ev, id) == [ev |-> ev, id |-> id]

\* A child is named, then opened.
OpenEvents(id) == << Ev("name", id), Ev("open", id) >>

\* A child with colorize_cluster called before anything of it is written.
LeafEventsColorFirst(id) ==
    << Ev("name", id), Ev("colorize", id), Ev("open", id), Ev("leaves", id),
       Ev("close", id) >>

\* A child that is printed: named, opened, its members written, then
\* colorized and closed.
LeafEvents(id) ==
    OpenEvents(id) \o << Ev("leaves", id), Ev("colorize", id), Ev("close", id) >>

\* A partitioned child after the loop over its groups: colorized, then closed.
CloseEvents(id) == << Ev("colorize", id), Ev("close", id) >>

\* The id of the child whose loop is the innermost open one.
ParentId == [k \in 1..(Len(stack) - 1) |-> stack[k].iter]

\* No call from outside was made.
NoCall == [op |-> "none", cluster |-> <<>>, codes |-> <<>>, key |-> <<>>,
           coverage |-> 0, counts |-> <<>>, name_keys |-> <<>>,
           passed |-> FALSE, target |-> 0, groups |-> <<>>,
           before |-> StoreInit(<<>>)]

\* The constructor was not called through the command line.
NoArgs == [argc |-> 0]

Init ==
    /\ vectors \in EmbeddingFiles
    /\ names \in NamesFiles
    /\ group_names \in GroupFiles
    /\ items_in_cluster \in 1..MaxItems
    /\ max_depth \in 1..MaxDepthAllowed
    /\ store = StoreInit(vectors)
    /\ pc = "start"
    /\ error = ""
    /\ stack = <<>>
    /\ out = <<>>
    /\ missing_data = <<>>
    /\ total_clusters = 0
    /\ visited = <<>>
    /\ last_call = NoCall
    /\ args = NoArgs
    /\ opened = <<>>
    /\ trace = <<>>

\* Lines 420-427 for an input of at most items_in_cluster vectors:
\* clusterize_cluster returns self.X itself, the file is opened, and
\* "clusters[entry]" of the first iteration indexes the array with a float
\* row, which raises IndexError.
RunStartSmall ==
    /\ pc = "start"
    /\ PassThrough(X, items_in_cluster)
    /\ out' = << Sym("{[") >>
    /\ pc' = "raised"
    /\ error' = "IndexError"
    /\ UNCHANGED << config, store, stack, missing_data, total_clusters, visited,
                   outside, trace >>

\* Lines 420-427: the first partition and the opening of the document.
RunStart ==
    /\ pc = "start"
    /\ ~PassThrough(X, items_in_cluster)
    /\ \E labels \in Labellings(Len(X)) :
          stack' = << [cluster |-> X, cluss |-> GroupByLabels(X, labels), iter |-> 0] >>
    /\ out' = << Sym("{[") >>
    /\ pc' = "loop"
    /\ UNCHANGED << config, store, error, missing_data, total_clusters, visited,
                   outside, trace >>

\* One iteration of a loop whose naming raises KeyError (count_sequences
\* reads Y[key] for a Range Key the names file does not hold); it is reached
\* only through longest_subsequence, so with group names and at levels 0-2.
VisitRaises ==
    /\ pc = "loop"
    /\ Top.iter < Len(Top.cluss)
    /\ group_names # "None"
    /\ Level < GroupNamedLevels
    /\ \E named \in {NameNode(store, Level, Entry)} :
          /\ named.raised
          /\ store' = named.st
    /\ pc' = "raised"
    /\ error' = "KeyError"
    /\ trace' = Append(trace, Ev("name", NodeId))
    /\ UNCHANGED << config, stack, out, missing_data, total_clusters, visited,
                   outside >>

\* One iteration of a loop for a child that is partitioned: the node is named
\* and opened, and the loop over its groups is entered.
VisitInner ==
    /\ pc = "loop"
    /\ Top.iter < Len(Top.cluss)
    /\ ShouldRecurse(Len(Entry), Level)
    /\ \E named \in {NameNode(store, Level, Entry)} :
          /\ ~named.raised
          /\ store' = named.st
          /\ out' = out \o NodeOpen(NodeId, named.name)
    /\ \E labels \in Labellings(Len(Entry)) :
          stack' = Append(stack, [cluster |-> Entry,
                                  cluss   |-> GroupByLabels(Entry, labels),
                                  iter    |-> 0])
    /\ visited' = Append(visited, Visit("partitioned", Level, NodeId, Entry, 0))
    /\ trace' = trace \o OpenEvents(NodeId)
    /\ UNCHANGED << config, pc, error, missing_data, total_clusters, outside >>

\* One iteration of a loop for a child that is not partitioned: the node is
\* named and opened, print_cluster writes its members, and the node is
\* colorized and closed.
VisitLeaf ==
    /\ pc = "loop"
    /\ Top.iter < Len(Top.cluss)
    /\ ~ShouldRecurse(Len(Entry), Level)
    /\ \E named \in {NameNode(store, Level, Entry)} :
          /\ ~named.raised
          /\ \E printed \in {PrintCluster(named.st, group_names, Y, nums_count,
                                           X, Entry)} :
             \E colored \in {ColorizeCluster(printed.st, group_names, nums_count,
                                              X, Entry)} :
                /\ store' = colored.st
                /\ out' = out \o NodeOpen(NodeId, named.name) \o printed.out
                              \o PrintClusterEnd(group_names, colored.coverage)
                /\ missing_data' = missing_data \o printed.missing
                /\ visited' = Append(visited, Visit("leaf", Level, NodeId, Entry,
                                                    LeafCount(printed.out)))
    /\ total_clusters' = total_clusters + 1
    /\ stack' = [stack EXCEPT ![Len(stack)].iter = @ + 1]
    /\ trace' = trace \o LeafEvents(NodeId)
    /\ UNCHANGED << config, pc, error, outside >>

\* The end of an inner loop: back in the enclosing iteration, the counter is
\* advanced and the partitioned child is colorized and closed.
CloseInner ==
    /\ pc = "loop"
    /\ Len(stack) > 1
    /\ Top.iter = Len(Top.cluss)
    /\ \E colored \in {ColorizeCluster(store, group_names, nums_count, X,
                                        Top.cluster)} :
          /\ store' = colored.st
          /\ out' = out \o PrintClusterEnd(group_names, colored.coverage)
    /\ stack' = [SubSeq(stack, 1, Len(stack) - 1) EXCEPT ![Len(stack) - 1].iter = @ + 1]
    /\ trace' = trace \o CloseEvents(ParentId)
    /\ UNCHANGED << config, pc, error, missing_data, total_clusters, visited,
                   outside >>

\* Lines 540-542: the end of the outermost loop closes the document.
RunFinish ==
    /\ pc = "loop"
    /\ Len(stack) = 1
    /\ Top.iter = Len(Top.cluss)
    /\ out' = out \o << Sym("]"), Sym("}") >>
    /\ pc' = "done"
    /\ UNCHANGED << config, store, error, stack, missing_data, total_clusters, visited,
                   outside, trace >>

Next ==
    \/ RunStartSmall
    \/ RunStart
    \/ VisitRaises
    \/ VisitInner
    \/ VisitLeaf
    \/ CloseInner
    \/ RunFinish

Spec == Init /\ [][Next]_vars

\* ------------------------------------------------- calls on the loaded tables

\* A vector that no embeddings file holds.
ForeignVector == <<5, 2>>

\* The vectors the calls are made with: the rows of X and a foreign one.
Queries == { X[i] : i \in 1..Len(X) } \cup { ForeignVector }

\* The contiguous parts of a sequence.
Windows(seq) == { SubSeq(seq, a, b) : a \in 1..Len(seq), b \in 1..Len(seq) } \ { <<>> }

\* The Codes of the embeddings table, in order.
TableCodes == [i \in 1..Len(vectors) |-> vectors[i].code]

\* What the calls on the loaded tables leave alone.
aside == << config, pc, error, stack, out, missing_data, total_clusters,
            visited, args, opened, trace >>

\* The state after clusterize() has loaded the tables, before run.
InitStore ==
    /\ vectors \in EmbeddingFiles
    /\ names \in NamesFiles
    /\ group_names \in GroupFiles
    /\ items_in_cluster = MaxItems
    /\ max_depth = MaxDepthAllowed
    /\ store = StoreInit(vectors)
    /\ pc = "loaded"
    /\ error = ""
    /\ stack = <<>>
    /\ out = <<>>
    /\ missing_data = <<>>
    /\ total_clusters = 0
    /\ visited = <<>>
    /\ last_call = NoCall
    /\ args = NoArgs
    /\ opened = <<>>
    /\ trace = <<>>

\* get_most_similar_key(array), on a row as it is or cast to float32.
CallGetMostSimilarKey ==
    \E q \in Queries \cup { F32(v) : v \in Queries } :
    \E got \in {GetMostSimilarKey(store, X, q)} :
        /\ store' = got.st
        /\ last_call' = [NoCall EXCEPT !.op = "get_most_similar_key",
                                       !.cluster = <<q>>, !.key = got.key,
                                       !.before = store]
        /\ UNCHANGED aside

\* colorize_code(code).
CallColorizeCode ==
    \E entry \in Queries :
    \E got \in {ColorizeCode(store, group_names, nums_count, X, entry)} :
        /\ store' = got.st
        /\ last_call' = [NoCall EXCEPT !.op = "colorize_code",
                                       !.cluster = <<entry>>, !.key = got.key,
                                       !.coverage = got.coverage,
                                       !.before = store]
        /\ UNCHANGED aside

\* colorize_cluster(curr_cluster).
CallColorizeCluster ==
    \E cluster \in Windows(X) :
    \E got \in {ColorizeCluster(store, group_names, nums_count, X, cluster)} :
        /\ store' = got.st
        /\ last_call' = [NoCall EXCEPT !.op = "colorize_cluster",
                                       !.cluster = cluster, !.codes = got.all_keys,
                                       !.coverage = got.coverage,
                                       !.counts = got.counts,
                                       !.before = store]
        /\ UNCHANGED aside

\* count_sequences(arr).
CallCountSequences ==
    \E arr \in Windows(TableCodes) :
    \E got \in {CountSequences(group_names, Y, nums_count, arr)} :
        /\ last_call' = [NoCall EXCEPT !.op = "count_sequences",
                                       !.codes = arr, !.counts = got.nums_count,
                                       !.name_keys = got.name_keys,
                                       !.before = store]
        /\ UNCHANGED << store, aside >>

\* name_cluster(currCluster).
CallNameCluster ==
    \E cluster \in Windows(X) :
    \E got \in {NameCluster(store, Y, X, cluster)} :
        /\ store' = got.st
        /\ last_call' = [NoCall EXCEPT !.op = "name_cluster",
                                       !.cluster = cluster, !.before = store]
        /\ UNCHANGED aside

NextStore ==
    \/ CallGetMostSimilarKey
    \/ CallColorizeCode
    \/ CallColorizeCluster
    \/ CallCountSequences
    \/ CallNameCluster

SpecStore == InitStore /\ [][NextStore]_vars

\* ------------------------------------------------------- claims about run

\* The positions of the tokens of one kind.
TokensOf(t) == { i \in 1..Len(out) : out[i].t = t }

\* How often v occurs in the sequence.
Occurrences(seq, v) == Cardinality({ i \in 1..Len(seq) : seq[i] = v })

RECURSIVE TotalLen(_)
TotalLen(groups) ==
    IF groups = <<>> THEN 0 ELSE Len(Head(groups)) + TotalLen(Tail(groups))

RECURSIVE Flatten(_)
Flatten(groups) ==
    IF groups = <<>> THEN <<>> ELSE Head(groups) \o Flatten(Tail(groups))

\* C1: whatever the partitioner returns, no node id has more than max_depth
\* components, no more than max_depth loops are ever open, and no child at
\* level max_depth - 1 (or deeper) is partitioned.
C1_DepthNeverExceedsMaxDepth ==
    /\ \A i \in TokensOf("node") : Len(out[i].id) <= max_depth
    /\ Len(stack) <= max_depth
    /\ \A i \in 1..Len(visited) :
          visited[i].kind = "partitioned" => visited[i].level < max_depth - 1

\* C1 happens: with max_depth below the six unrolled levels, a child at level
\* max_depth - 1 larger than items_in_cluster was printed and not partitioned,
\* below a node that was partitioned.
C1_Witness ==
    /\ pc = "done"
    /\ max_depth > 1 /\ max_depth < MaxDepthAllowed
    /\ \E i \in 1..Len(visited) :
          /\ visited[i].kind = "leaf"
          /\ visited[i].level = max_depth - 1
          /\ visited[i].size > items_in_cluster

\* C2: the groups of every open loop hold exactly the vectors of the cluster
\* that was partitioned, each as often as the cluster does, and a completed
\* run has written one leaf entry per input vector.
C2_ChildrenPartitionTheNode ==
    /\ \A k \in 1..Len(stack) :
          /\ TotalLen(stack[k].cluss) = Len(stack[k].cluster)
          /\ \A i \in 1..Len(stack[k].cluster) :
                Occurrences(Flatten(stack[k].cluss), stack[k].cluster[i])
                    = Occurrences(stack[k].cluster, stack[k].cluster[i])
    /\ pc = "done" => Cardinality(TokensOf("leaf")) = Len(X)

\* C2 happens: a run over three or more vectors completed after partitioning
\* a group below the root as well.
C2_Witness ==
    /\ pc = "done"
    /\ Len(X) >= 3
    /\ \E i \in 1..Len(visited) :
          visited[i].kind = "partitioned" /\ visited[i].level >= 1

\* C3: a child at level d was partitioned exactly if it held more than
\* items_in_cluster vectors and d + 1 < max_depth; every other child had all
\* its members written as leaf entries, and a partitioned one none by itself.
C3_RecurseIffLargeAndDepthLeft ==
    \A i \in 1..Len(visited) :
        /\ visited[i].kind = "partitioned"
              <=> (visited[i].size > items_in_cluster
                   /\ visited[i].level + 1 < max_depth)
        /\ visited[i].kind = "leaf" => visited[i].leaves = visited[i].size
        /\ visited[i].kind = "partitioned" => visited[i].leaves = 0

\* C3 happens: with depth left, a child of exactly items_in_cluster members was
\* printed and one of items_in_cluster + 1 members was partitioned; and one
\* larger than items_in_cluster was printed where no depth was left.
C3_Witness ==
    /\ \E i \in 1..Len(visited) :
          /\ visited[i].kind = "leaf"
          /\ visited[i].size = items_in_cluster
          /\ visited[i].level + 1 < max_depth
    /\ \E i \in 1..Len(visited) :
          /\ visited[i].kind = "partitioned"
          /\ visited[i].size = items_in_cluster + 1
    /\ \E i \in 1..Len(visited) :
          /\ visited[i].kind = "leaf"
          /\ visited[i].size > items_in_cluster

\* An element of a "groups" array begins / ends with this token.
Begins(tok) == tok.t \in {"leaf", "node"}

Ends(tok) == tok.t \in {"leaf", "}"}

\* The separators of the token stream are those of JSON arrays: a comma stands
\* between two elements and nowhere else.
WellSeparated(tokens) ==
    \A i \in 1..(Len(tokens) - 1) :
        /\ tokens[i].t = "," => Begins(tokens[i + 1])
        /\ tokens[i + 1].t = "," => Ends(tokens[i])
        /\ ~(Ends(tokens[i]) /\ Begins(tokens[i + 1]))

\* C4: the output of a completed run is well-formed JSON: in every "groups"
\* array consecutive elements are separated by exactly one comma and no comma
\* follows the last element.
C4_CompletedOutputIsWellFormed == pc = "done" => WellSeparated(out)

\* The Code run resolves a member to, read from the lookup state.
ResolvedCode(v) == store.rv[Enc(F32(v))]

\* How many members of the cluster the Range Key at position k is the first
\* to bracket.
BracketedBy(cluster, k) ==
    Cardinality({ i \in 1..Len(cluster) :
        /\ LexBrackets(nums_count[k], ResolvedCode(cluster[i]))
        /\ \A j \in 1..(k - 1) : ~LexBrackets(nums_count[j], ResolvedCode(cluster[i])) })

RECURSIVE BracketedBySome(_, _)
\* How many members the Range Keys at the positions in sel are counted for.
BracketedBySome(cluster, sel) ==
    IF sel = {} THEN 0
    ELSE LET k == CHOOSE x \in sel : TRUE
         IN  BracketedBy(cluster, k) + BracketedBySome(cluster, sel \ {k})

\* Some selection of up to 3 Range Keys holds 60% of the cluster.
ShareReachable(cluster) ==
    \E sel \in SUBSET (1..Len(nums_count)) :
        /\ Cardinality(sel) <= MaxNameKeys
        /\ 100 * BracketedBySome(cluster, sel) >= SharePercent * Len(cluster)

\* C6: with group ranges configured, a node whose members no selection of up
\* to 3 Range Keys covers to 60% is labelled by keyword extraction.
C6_UnreachedShareFallsBackToKeywords ==
    \A i \in TokensOf("node") :
        \A n \in 1..Len(visited) :
            (/\ group_names # "None"
             /\ visited[n].id = out[i].id
             /\ ~ShareReachable(visited[n].members))
            => out[i].label.src = "rake"

\* C7: without a group-names file no token of the output carries a coverage
\* and every node label comes from keyword extraction.
C7_NoGroupsNoCoverage ==
    group_names = "None" =>
        /\ \A i \in 1..Len(out) : out[i].cov = NoCoverage
        /\ \A i \in TokensOf("node") : out[i].label.src = "rake"

\* C7 happens: a run without group names completed, with a node below the top
\* level, a leaf entry with a description and one without.
C7_Witness ==
    /\ group_names = "None"
    /\ pc = "done"
    /\ \E i \in TokensOf("node") : Len(out[i].id) >= 2
    /\ \E i \in TokensOf("leaf") : out[i].label.src = "desc"
    /\ \E i \in TokensOf("leaf") : out[i].label.src = "missing"

\* ------------------------------------------- claims about the Embedding Store

\* The entries the lookup cache holds beyond those of the loaded table.
CachedMisses == DOMAIN store.rv \ DOMAIN ReversedInit(vectors)

\* C8: total_missing_items is the number of distinct vectors that missed the
\* exact reverse lookup.  A lookup that misses returns the Code the table
\* holds for the nearest table vector, stores it in the cache under the
\* queried vector and adds exactly one to the counter; a lookup of a vector
\* the cache holds returns the stored Code and changes nothing.
C8_MissesCountedOncePerVector ==
    /\ store.missing = Cardinality(CachedMisses)
    /\ last_call.op = "get_most_similar_key" =>
          LET array   == last_call.cluster[1]
              before  == last_call.before
              nearest == X[ArgMin(X, array)]
          IN  IF Enc(array) \in DOMAIN before.rv
              THEN /\ store = before
                   /\ last_call.key = before.rv[Enc(array)]
              ELSE /\ store.missing = before.missing + 1
                   /\ DOMAIN store.rv = DOMAIN before.rv \cup {Enc(array)}
                   /\ \A h \in DOMAIN before.rv : store.rv[h] = before.rv[h]
                   /\ store.rv[Enc(array)] = before.rv[Enc(nearest)]
                   /\ last_call.key = before.rv[Enc(nearest)]

\* A vector that missed earlier is looked up again, after two misses.
C8_Witness ==
    /\ last_call.op = "get_most_similar_key"
    /\ Enc(last_call.cluster[1]) \in CachedMisses
    /\ Enc(last_call.cluster[1]) \in DOMAIN last_call.before.rv
    /\ last_call.key = store.rv[Enc(last_call.cluster[1])]
    /\ store.missing = 2

\* What colorize_code returns for entry on a given lookup state.
CoverageOf(st, entry) ==
    ColorizeCode(st, group_names, nums_count, X, entry).coverage

\* C9: with the loaded tables fixed, every call of colorize_code for the
\* same Code returns the same coverage: the coverage a call returns is the
\* one a repeated call returns, and no lookup, naming or colorization changes
\* the coverage of a Code whose lookup the store already answers.
C9_ColorizeCodeIsIdempotent ==
    [][/\ last_call'.op = "colorize_code" =>
             last_call'.coverage = CoverageOf(store', last_call'.cluster[1])
       /\ \A entry \in Queries :
             Enc(F32(entry)) \in DOMAIN store.rv =>
                 CoverageOf(store', entry) = CoverageOf(store, entry)]_vars

\* colorize_code is answered from a cache entry that an earlier call made,
\* and the Code has a coverage.
C9_Witness ==
    /\ last_call.op = "colorize_code"
    /\ Enc(F32(last_call.cluster[1])) \in CachedMisses
    /\ last_call.before = store
    /\ last_call.coverage > 0

\* The first Range Key, in table order, whose borders bracket the Code
\* under string comparison; 0 when there is none.
FirstLexKey(keys, code) ==
    IF \E k \in 1..Len(keys) : LexBrackets(keys[k], code)
    THEN CHOOSE k \in 1..Len(keys) :
            /\ LexBrackets(keys[k], code)
            /\ \A j \in 1..(k - 1) : ~LexBrackets(keys[j], code)
    ELSE 0

\* The number of Codes of codes whose first bracketing Range Key is k.
Tally(keys, codes, k) ==
    Cardinality({ i \in 1..Len(codes) : FirstLexKey(keys, codes[i]) = k })

\* C10: count_sequences, colorize_cluster and colorize_code assign a Code to
\* the first Range Key, in table order, with LEFT <= Code <= RIGHT as
\* strings, and count a Code for at most one Range Key; "J00-J99" accepts
\* "J50" and rejects "K01".
C10_FirstLexicographicBracket ==
    /\ Brackets(GroupRows[1].key, Universe[1].code)
    /\ ~Brackets(GroupRows[1].key, Universe[2].code)
    /\ (last_call.op \in {"count_sequences", "colorize_cluster"}
        /\ group_names # "None") =>
          \A k \in 1..Len(nums_count) :
              last_call.counts[k] = Tally(nums_count, last_call.codes, k)
    /\ (last_call.op = "colorize_code" /\ group_names # "None") =>
          last_call.coverage =
              ColorConstant(nums_count) * FirstLexKey(nums_count, last_call.key)

\* count_sequences counts a Code that two Range Keys bracket and a Code that
\* only a string comparison puts between the borders of a Range Key.
C10_Witness ==
    /\ last_call.op = "count_sequences"
    /\ group_names # "None"
    /\ \E i \in 1..Len(last_call.codes) :
          Cardinality({ k \in 1..Len(nums_count) :
                          LexBrackets(nums_count[k], last_call.codes[i]) }) > 1
    /\ \E i \in 1..Len(last_call.codes) :
          /\ LexBrackets(nums_count[4], last_call.codes[i])
          /\ ~NumBrackets(nums_count[4], last_call.codes[i])
    /\ last_call.counts[1] > 0
    /\ last_call.counts[4] > 0

\* ------------------------------------------------ main and validate_constructor

\* The clustering types validate_constructor allows.
ClusteringTypes == {"k-means", "agglomerative", "dbscan", "birch"}

\* The files an argument can name, by the first row a csv reader yields:
\* "names.csv" and "groups.csv" start with key,value; "plain.csv" starts
\* with another row; "empty.csv" has no row.
FirstRowIsHeader(file) == file \in {"names.csv", "groups.csv"}
HasRows(file) == file # "empty.csv"


\* The argument tuples.  via "main": the command line of len(sys.argv) argc
\* (the output path is missing when argc is 7), every argument a string,
\* argv8 the optional ninth; via "constructor": BlanketClusterer
\* called directly, where embeddings and names may be None.  The numbers
\* stand for the strings int() converts.
ArgumentTuples ==
    { [via |-> via, argc |-> argc, n_clusters |-> n, clustering_type |-> t,
       embeddings |-> e, names |-> nm, items_in_cluster |-> items,
       max_depth |-> depth, argv8 |-> g, group_names |-> "None"] :
        via \in {"main", "constructor"},
        argc \in LastPositional..ArgcWithGroups,
        n \in {0, 3},
        t \in {"k-means", "birch", "spectral"},
        e \in {"None", "model.pkl"},
        nm \in {"None", "names.csv", "plain.csv", "empty.csv"},
        items \in {MinItemsExclusive, MinItemsExclusive + 1},
        depth \in {0, MaxDepthAllowed, MaxDepthAllowed + 1},
        g \in {"None", "groups.csv", "plain.csv"} }

\* The tuples a caller can make: the command line gives no None and gives
\* argv8 exactly when len(sys.argv) is 9; a direct call passes group_names
\* itself.
CanBeGiven(a) ==
    IF a.via = "main"
    THEN /\ a.embeddings # "None"
         /\ a.names # "None"
         /\ (a.argv8 # "None") <=> (a.argc = ArgcWithGroups)
    ELSE a.argc = ArgcWithGroups

aloof == << vectors, names, group_names, items_in_cluster, max_depth, store,
            stack, out, missing_data, total_clusters, visited, last_call,
            trace >>

InitValidate ==
    /\ args \in { a \in ArgumentTuples : CanBeGiven(a) }
    /\ pc = IF args.via = "main" THEN "main" ELSE "__init__"
    /\ error = ""
    /\ opened = <<>>
    /\ vectors = <<>>
    /\ names = "codes"
    /\ group_names = "None"
    /\ items_in_cluster = MaxItems
    /\ max_depth = MaxDepthAllowed
    /\ store = StoreInit(<<>>)
    /\ stack = <<>>
    /\ out = <<>>
    /\ missing_data = <<>>
    /\ total_clusters = 0
    /\ visited = <<>>
    /\ last_call = NoCall
    /\ trace = <<>>

\* A step of validation that fails: the exception ends the program.
Raise(message) ==
    /\ pc' = "raised"
    /\ error' = message
    /\ UNCHANGED << args, opened, aloof >>

\* A step of validation that passes on to the next one.
Pass(next) ==
    /\ pc' = next
    /\ UNCHANGED << args, error, opened, aloof >>

\* main: sys.argv[1] .. sys.argv[7] are read, then sys.argv[8] when
\* len(sys.argv) == 9.
Main ==
    /\ pc = "main"
    /\ IF args.argc <= LastPositional
       THEN /\ pc' = "raised"
            /\ error' = "IndexError: list index out of range"
            /\ UNCHANGED << args, opened, aloof >>
       ELSE /\ pc' = "__init__"
            /\ args' = [args EXCEPT !.group_names =
                            IF args.argc = ArgcWithGroups THEN args.argv8
                            ELSE "None"]
            /\ UNCHANGED << error, opened, aloof >>

\* BlanketClusterer.__init__ calls validate_constructor with the arguments;
\* a direct caller gives group_names itself.
Construct ==
    /\ pc = "__init__"
    /\ pc' = "n_clusters"
    /\ args' = [args EXCEPT !.group_names =
                    IF args.via = "constructor" THEN args.argv8 ELSE @]
    /\ UNCHANGED << error, opened, aloof >>

CheckNClusters ==
    /\ pc = "n_clusters"
    /\ IF args.n_clusters <= 0
       THEN Raise("Invalid number of clusters")
       ELSE Pass("clustering_type")

CheckClusteringType ==
    /\ pc = "clustering_type"
    /\ IF args.clustering_type \notin ClusteringTypes
       THEN Raise("Invalid clustering type")
       ELSE Pass("embeddings")

CheckEmbeddings ==
    /\ pc = "embeddings"
    /\ IF args.embeddings = "None"
       THEN Raise("No embeddings specified")
       ELSE Pass("names")

CheckNames ==
    /\ pc = "names"
    /\ IF args.names = "None"
       THEN Raise("No names .csv file specified")
       ELSE Pass("open names")

\* open(names, "r") and the test of the first row.
OpenNames ==
    /\ pc = "open names"
    /\ opened' = Append(opened, args.names)
    /\ IF HasRows(args.names) /\ ~FirstRowIsHeader(args.names)
       THEN /\ pc' = "raised"
            /\ error' = "Names are not in specified format"
       ELSE /\ pc' = "open group_names"
            /\ error' = error
    /\ UNCHANGED << args, aloof >>

\* open(group_names, "r") and the test of the first row, when group_names
\* is given.
OpenGroupNames ==
    /\ pc = "open group_names"
    /\ IF args.group_names = "None"
       THEN /\ pc' = "items_in_cluster"
            /\ UNCHANGED << error, opened >>
       ELSE /\ opened' = Append(opened, args.group_names)
            /\ IF HasRows(args.group_names) /\ ~FirstRowIsHeader(args.group_names)
               THEN /\ pc' = "raised"
                    /\ error' = "Group names are not in specified format"
               ELSE /\ pc' = "items_in_cluster"
                    /\ error' = error
    /\ UNCHANGED << args, aloof >>

CheckItemsInCluster ==
    /\ pc = "items_in_cluster"
    /\ IF args.items_in_cluster <= MinItemsExclusive
       THEN Raise("Number of items in clusters must be greater than 5")
       ELSE Pass("max_depth")

CheckMaxDepth ==
    /\ pc = "max_depth"
    /\ IF ~(0 < args.max_depth /\ args.max_depth <= MaxDepthAllowed)
       THEN Raise("Invalid argument for max depth, choose in range 1-6")
       ELSE Pass("constructed")

NextValidate ==
    \/ Main
    \/ Construct
    \/ CheckNClusters
    \/ CheckClusteringType
    \/ CheckEmbeddings
    \/ CheckNames
    \/ OpenNames
    \/ OpenGroupNames
    \/ CheckItemsInCluster
    \/ CheckMaxDepth

SpecValidate == InitValidate /\ [][NextValidate]_vars

\* ------------------------------------------------------ claims about validation

\* The descriptive errors of the configuration rules an argument tuple
\* violates.
ViolatedRules(a) ==
    { m \in { "Invalid number of clusters",
              "Invalid clustering type",
              "No embeddings specified",
              "No names .csv file specified",
              "Number of items in clusters must be greater than 5",
              "Invalid argument for max depth, choose in range 1-6" } :
        \/ m = "Invalid number of clusters" /\ a.n_clusters <= 0
        \/ m = "Invalid clustering type" /\ a.clustering_type \notin ClusteringTypes
        \/ m = "No embeddings specified" /\ a.embeddings = "None"
        \/ m = "No names .csv file specified" /\ a.names = "None"
        \/ m = "Number of items in clusters must be greater than 5"
              /\ a.items_in_cluster <= MinItemsExclusive
        \/ m = "Invalid argument for max depth, choose in range 1-6"
              /\ (a.max_depth < 1 \/ a.max_depth > MaxDepthAllowed) }

\* A positional command-line argument is missing.
MissingArgument(a) == a.via = "main" /\ a.argc <= LastPositional

\* C5: an argument tuple that violates a configuration rule fails with the
\* descriptive error of a violated rule, before any input file is opened and
\* before any output is written; a missing positional argument fails before
\* any file is opened as well.
C5_InvalidArgumentsFailBeforeAnyFile ==
    /\ (pc \in {"raised", "constructed"} /\ ~MissingArgument(args)
        /\ ViolatedRules(args) # {}) =>
          /\ pc = "raised"
          /\ error \in ViolatedRules(args)
          /\ opened = <<>>
          /\ out = <<>>
    /\ (pc \in {"raised", "constructed"} /\ MissingArgument(args)) =>
          /\ pc = "raised"
          /\ opened = <<>>
          /\ out = <<>>

\* ------------------------------------------------------ claims about coverages

\* C11: every coverage is a hue in [0, 360): each entry of the Coverage Table
\* and each value colorize_cluster or colorize_code returns is at least 0 and
\* less than 360.
C11_CoveragesAreHues ==
    group_names # "None" =>
        /\ \A k \in 1..Len(nums_count) :
              /\ ExtractCoverages(nums_count)[k] >= 0
              /\ ExtractCoverages(nums_count)[k] < FullCircle
        /\ last_call.op \in {"colorize_code", "colorize_cluster"} =>
              /\ last_call.coverage >= 0
              /\ last_call.coverage < FullCircle

\* ------------------------------------------------- claims about the leaf entries

IsMissingLeaf(tok) == tok.t = "leaf" /\ tok.label.src = "missing"

\* The ids of the leaf entries labelled "NAME NOT FOUND", in writing order.
MissingIds(tokens) ==
    LET missing == SelectSeq(tokens, IsMissingLeaf)
    IN  [i \in 1..Len(missing) |-> missing[i].id]

\* The members of a child whose resolved Code is not among the described
\* ones (the keys of the Description Table).
Undescribed(members, described) ==
    { m \in 1..Len(members) : Upper(ResolvedCode(members[m])) \notin described }

RECURSIVE UndescribedIn(_, _, _)
\* How many members of the printed children among the first n visited ones
\* have no description.
UndescribedIn(seen, n, described) ==
    IF n = 0 THEN 0
    ELSE (IF seen[n].kind = "leaf"
          THEN Cardinality(Undescribed(seen[n].members, described))
          ELSE 0) + UndescribedIn(seen, n - 1, described)

\* C12: a member whose resolved Code has no description is still written as
\* one leaf entry, with that Code as id and the label "NAME NOT FOUND", and
\* its Code is appended to missing_data once; no member of a printed child is
\* left out.
C12_UndescribedCodesAreStillWritten ==
    \A table \in {Y} :
        /\ \A i \in TokensOf("leaf") :
              IF out[i].id \in DOMAIN table
              THEN out[i].label = [src |-> "desc", words |-> table[out[i].id]]
              ELSE out[i].label = [src |-> "missing", words |-> <<"NAME NOT FOUND">>]
        /\ missing_data = MissingIds(out)
        /\ Len(missing_data) = UndescribedIn(visited, Len(visited), DOMAIN table)
        /\ \A n \in 1..Len(visited) :
              visited[n].kind = "leaf" => visited[n].leaves = visited[n].size

\* C12 happens: a completed run wrote a member without a description and went
\* on to write the next member of the same child.
C12_Witness ==
    /\ pc = "done"
    /\ \E i \in 1..(Len(out) - 2) :
          /\ out[i].t = "leaf" /\ out[i].label.src = "missing"
          /\ out[i + 1].t = ","
          /\ out[i + 2].t = "leaf" /\ out[i + 2].label.src = "desc"
    /\ Len(missing_data) >= 1

\* ------------------------------------------------------ claims about the naming

\* The Codes run resolves the members of a child to.
ResolvedCodes(members) == [m \in 1..Len(members) |-> ResolvedCode(members[m])]

\* What the group heuristic yields for the members of a child.
Heuristic(members) ==
    CountSequences(group_names, Y, nums_count, ResolvedCodes(members))

\* C13: with group ranges configured, every node at every depth is named by
\* the group heuristic, and by keyword extraction only when the heuristic
\* yields an empty label.
C13_GroupHeuristicNamesEveryDepth ==
    group_names # "None" =>
        \A i \in TokensOf("node") :
            \A n \in 1..Len(visited) :
                (visited[n].id = out[i].id /\ ~Heuristic(visited[n].members).raised) =>
                    IF Heuristic(visited[n].members).name = <<>>
                    THEN out[i].label.src = "rake"
                    ELSE out[i].label = [src   |-> "group",
                                         words |-> Heuristic(visited[n].members).name]

RECURSIVE JoinGroupDescriptions(_, _)
\* The descriptions the Group Range Table holds for the selected Range Keys,
\* from position i on, in selection order and separated by "/".
JoinGroupDescriptions(name_keys, i) ==
    IF i > Len(name_keys) THEN <<>>
    ELSE Z[Upper(nums_count[name_keys[i]])]
         \o (IF i # Len(name_keys) THEN <<"/">> ELSE <<>>)
         \o JoinGroupDescriptions(name_keys, i + 1)

\* C14: a label of the group heuristic is made of the descriptions the
\* group-names file gives for the selected Range Keys, in selection order and
\* separated by " / ", and naming a node never aborts the run.
C14_GroupLabelsComeFromTheGroupFile ==
    /\ error # "KeyError"
    /\ \A i \in TokensOf("node") :
          \A n \in 1..Len(visited) :
              (visited[n].id = out[i].id /\ out[i].label.src = "group") =>
                  out[i].label.words =
                      StripWords(JoinGroupDescriptions(
                                     Heuristic(visited[n].members).name_keys, 1))

\* ------------------------------------------------- claims about the selection

RECURSIVE Taken(_, _, _)
\* The member count of the first j selected Range Keys.
Taken(counts, sel, j) ==
    IF j = 0 THEN 0 ELSE counts[sel[j]] + Taken(counts, sel, j - 1)

\* C15: count_sequences takes Range Keys in descending member-count order,
\* equal counts in table order, until the taken keys hold 60% of the node or
\* 3 keys are taken: at most 3 keys, a prefix of that order, and none taken
\* once the 60% is reached.
C15_KeysTakenUntilShareReached ==
    (last_call.op = "count_sequences" /\ group_names # "None") =>
        LET counts == last_call.counts
            sel    == last_call.name_keys
            size   == Len(last_call.codes)
            all    == 1..Len(nums_count)
        IN  /\ Len(sel) <= MaxNameKeys
            /\ \A j \in 1..Len(sel) :
                  /\ sel[j] \in all
                  /\ \A k \in all \ { sel[h] : h \in 1..(j - 1) } :
                        \/ counts[k] < counts[sel[j]]
                        \/ counts[k] = counts[sel[j]] /\ sel[j] <= k
                  /\ 100 * Taken(counts, sel, j - 1) < SharePercent * size
            /\ \/ Len(sel) = MaxNameKeys
               \/ Len(sel) = Len(nums_count)
               \/ 100 * Taken(counts, sel, Len(sel)) >= SharePercent * size

\* C15 happens: two Range Keys with equal counts are taken in table order, and
\* the third is not taken because the two hold 60% of the node.
C15_Witness ==
    /\ last_call.op = "count_sequences"
    /\ group_names # "None"
    /\ Len(last_call.name_keys) = 2
    /\ last_call.counts[last_call.name_keys[1]] = last_call.counts[last_call.name_keys[2]]
    /\ last_call.name_keys[1] < last_call.name_keys[2]
    /\ Len(nums_count) > MaxNameKeys

\* ----------------------------------------------- claims about the partitioner

\* C16: an input of at most items_in_cluster vectors is returned by
\* clusterize_cluster as one pass-through group, and run completes with one
\* top-level node that holds every input vector as a leaf entry.
C16_SmallInputIsOnePassThroughGroup ==
    (pc # "start" /\ PassThrough(X, items_in_cluster)) =>
        /\ pc # "raised"
        /\ pc = "done" =>
              /\ Cardinality({ i \in TokensOf("node") : Len(out[i].id) = 1 }) = 1
              /\ Cardinality(TokensOf("leaf")) = Len(X)

\* ------------------------------------------------- calls of clusterize_cluster

\* The target of a backend that is given none: DBSCAN(eps=0.1,
\* metric='cosine') in both branches.
NoTarget == 0

\* math.ceil(size / items).
Ceil(size, items) == (size + items - 1) \div items

\* The number of groups clusterize_cluster asks its backend for, for a group
\* of more than items vectors: n_clusters above items squared and
\* ceil(size / items) otherwise in KMeansClusterer, AgglomerativeClustering
\* and Birch; DBSCAN is constructed without any.
RequestedTarget(type, size, items, n_clusters) ==
    CASE type = "k-means" ->
            IF size > items * items THEN n_clusters ELSE Ceil(size, items)
      [] type = "agglomerative" ->
            IF size > items * items THEN n_clusters ELSE Ceil(size, items)
      [] type = "birch" ->
            IF size > items * items THEN n_clusters ELSE Ceil(size, items)
      [] type = "dbscan" -> NoTarget

\* What the calls of clusterize_cluster leave alone.
apart == << config, store, pc, error, stack, out, missing_data, total_clusters,
            visited, args, opened, trace >>

\* A clusterer of one of the four classes, constructed and loaded.
InitPartition ==
    /\ vectors \in EmbeddingFiles
    /\ names = "codes"
    /\ group_names = "None"
    /\ items_in_cluster \in 1..MaxItems
    /\ max_depth = MaxDepthAllowed
    /\ args \in [n_clusters : 1..MaxClusters, clustering_type : ClusteringTypes]
    /\ store = StoreInit(vectors)
    /\ pc = "loaded"
    /\ error = ""
    /\ stack = <<>>
    /\ out = <<>>
    /\ missing_data = <<>>
    /\ total_clusters = 0
    /\ visited = <<>>
    /\ last_call = NoCall
    /\ opened = <<>>
    /\ trace = <<>>

\* clusterize_cluster(this_cluster) on at most items_in_cluster vectors:
\* this_cluster is returned.
ClusterizeSmall ==
    \E this_cluster \in Windows(X) :
        /\ PassThrough(this_cluster, items_in_cluster)
        /\ last_call' = [NoCall EXCEPT !.op = "clusterize_cluster",
                                       !.cluster = this_cluster,
                                       !.passed = TRUE]
        /\ UNCHANGED apart

\* clusterize_cluster(this_cluster) on more vectors: the backend is
\* constructed with its target and its labels are grouped.
ClusterizeLarge ==
    \E this_cluster \in Windows(X) :
    \E labels \in Labellings(Len(this_cluster)) :
        /\ ~PassThrough(this_cluster, items_in_cluster)
        /\ last_call' = [NoCall EXCEPT
              !.op = "clusterize_cluster",
              !.cluster = this_cluster,
              !.target = RequestedTarget(args.clustering_type, Len(this_cluster),
                                         items_in_cluster, args.n_clusters),
              !.groups = GroupByLabels(this_cluster, labels)]
        /\ UNCHANGED apart

NextPartition ==
    \/ ClusterizeSmall
    \/ ClusterizeLarge

SpecPartition == InitPartition /\ [][NextPartition]_vars

\* C17: in each of the four strategies clusterize_cluster asks its backend,
\* for a group larger than items_in_cluster, for n_clusters groups when the
\* group is larger than items_in_cluster squared and for
\* ceil(size / items_in_cluster) groups otherwise.
C17_TargetIsTheSameInEveryStrategy ==
    (last_call.op = "clusterize_cluster" /\ ~last_call.passed) =>
        LET size == Len(last_call.cluster)
        IN  IF size > items_in_cluster * items_in_cluster
            THEN last_call.target = args.n_clusters
            ELSE /\ (last_call.target - 1) * items_in_cluster < size
                 /\ size <= last_call.target * items_in_cluster

\* --------------------------------------------- claims about colorize_cluster

\* The Range Key that is the first bracket of the most Codes, the earliest in
\* table order among those with the most.
MostHitKey(keys, codes) ==
    CHOOSE k \in 1..Len(keys) :
        \A j \in 1..Len(keys) :
            \/ Tally(keys, codes, j) < Tally(keys, codes, k)
            \/ Tally(keys, codes, j) = Tally(keys, codes, k) /\ k <= j

\* C18: colorize_cluster returns the Coverage Table value of the Range Key
\* that brackets the most members, each member counted for its first
\* bracketing Range Key and no 60% cutoff applied; among Range Keys with
\* equally many, also when no member is bracketed at all, the earliest in
\* table order.
C18_ClusterColorIsTheMostHitKey ==
    (last_call.op = "colorize_cluster" /\ group_names # "None") =>
        last_call.coverage =
            ExtractCoverages(nums_count)[MostHitKey(nums_count, last_call.codes)]

\* C18 happens: two Range Keys bracket one member each and the earlier one
\* gives the coverage; it is not the first of the table.
C18_Witness ==
    /\ last_call.op = "colorize_cluster"
    /\ group_names # "None"
    /\ \E k \in 2..Len(nums_count) : \E j \in (k + 1)..Len(nums_count) :
          /\ last_call.counts[k] = last_call.counts[j]
          /\ last_call.counts[k] > 0
          /\ \A h \in 1..Len(nums_count) : last_call.counts[h] <= last_call.counts[k]
          /\ \A h \in 1..(k - 1) : last_call.counts[h] < last_call.counts[k]
          /\ last_call.coverage = ExtractCoverages(nums_count)[k]

\* ------------------------------------------------ claims about the order of run

\* The positions of the trace at which ev was done for the node id.
When(ev, id) == { p \in 1..Len(trace) : trace[p] = Ev(ev, id) }

IsOpen(e) == e.ev = "open"

IsNode(tok) == tok.t = "node"

\* The ids of a sequence of events or tokens.
Ids(seq) == [i \in 1..Len(seq) |-> seq[i].id]

RECURSIVE DepthFirstFrom(_, _, _)
\* The writes of the trace from position p on are those of a depth-first
\* writer that has the node cur open (the root when cur is empty) and has
\* closed the first `closed` children of it: the node opened next is the next
\* child of cur, members are written for cur only, before any child of it,
\* and the node closed next is cur, after which its parent is the open node
\* again.  The calls of the Namer and the Colorizer are not writes.
DepthFirstFrom(p, cur, closed) ==
    IF p > Len(trace) THEN TRUE
    ELSE IF trace[p].ev = "open"
    THEN /\ trace[p].id = Append(cur, closed)
         /\ DepthFirstFrom(p + 1, trace[p].id, 0)
    ELSE IF trace[p].ev = "leaves"
    THEN /\ trace[p].id = cur
         /\ closed = 0
         /\ DepthFirstFrom(p + 1, cur, closed)
    ELSE IF trace[p].ev = "close"
    THEN /\ trace[p].id = cur
         /\ cur # <<>>
         /\ DepthFirstFrom(p + 1, SubSeq(cur, 1, Len(cur) - 1), cur[Len(cur)] + 1)
    ELSE DepthFirstFrom(p + 1, cur, closed)

\* The Emitter writes depth-first: the id and label of a node before anything
\* of its descendants, its closing bracket and coverage after everything of
\* them, its members between the two, and siblings in enumeration order, one
\* closed before the next is opened; the nodes opened are the nodes of the
\* output, in that order.
DepthFirstOrder ==
    /\ DepthFirstFrom(1, <<>>, 0)
    /\ Ids(SelectSeq(trace, IsOpen)) = Ids(SelectSeq(out, IsNode))

\* C19, as claimed: the Namer and the Colorizer are both invoked for a node
\* before anything of the node is written, and the Emitter writes depth-first.
C19_NamedAndColorizedBeforeWritten ==
    /\ \A p \in 1..Len(trace) :
          trace[p].ev = "open" =>
              /\ \E q \in 1..(p - 1) : trace[q] = Ev("name", trace[p].id)
              /\ \E q \in 1..(p - 1) : trace[q] = Ev("colorize", trace[p].id)
    /\ DepthFirstOrder

\* C19, amended: the Namer is invoked for a node right before its id and label
\* are written, and nowhere else unless it raises; the Colorizer is invoked
\* for it right before its closing bracket and coverage are written, and
\* nowhere else, so after everything else of the node and its descendants is
\* written; and the Emitter writes depth-first.
C19_NamedBeforeColorizedAtClose ==
    /\ \A p \in 1..Len(trace) :
          /\ trace[p].ev = "open" =>
                p > 1 /\ trace[p - 1] = Ev("name", trace[p].id)
          /\ trace[p].ev = "close" =>
                p > 1 /\ trace[p - 1] = Ev("colorize", trace[p].id)
          /\ trace[p].ev = "colorize" =>
                p < Len(trace) /\ trace[p + 1] = Ev("close", trace[p].id)
          /\ trace[p].ev = "name" =>
                IF p = Len(trace) THEN pc = "raised"
                ELSE trace[p + 1] = Ev("open", trace[p].id)
    /\ DepthFirstOrder

\* C19 happens: a completed run partitioned a top-level node into two
\* groups, printed both and then colorized and closed the node.
C19_Witness ==
    /\ pc = "done"
    /\ \E p \in 1..Len(trace) :
          /\ trace[p].ev = "colorize"
          /\ Len(trace[p].id) = 1
          /\ When("leaves", trace[p].id \o <<0>>) # {}
          /\ When("leaves", trace[p].id \o <<1>>) # {}
          /\ When("close", trace[p].id) # {}

====
